---- MODULE Spec2Model ----
(***************************************************************************)
(* A model of video-transcriber.py: the VideoTranscriber class (audio      *)
(* extraction with ffmpeg, Whisper inference, .txt/.srt output, directory  *)
(* batches) and its SRT timestamp formatting.                              *)
(*                                                                         *)
(* Text is modelled as a sequence of one-character strings.  Python floats *)
(* are modelled as IEEE-754 binary64 values m / 2^s with an arbitrary      *)
(* precision natural m, every operation rounding to 53 significant bits    *)
(* (round half to even) as the hardware does.                              *)
(***************************************************************************)
EXTENDS Integers, Sequences, FiniteSets, TLC

VARIABLES
    \* the program: main(), transcribe_directory, transcribe_video
    pc,                  \* where the single thread of control is
    mode,                \* who called transcribe_video: "single" or "batch"
    runs,                \* invocations of main() so far
    arg_output,          \* the command line's --output, None when not given
    dirs,                \* the directories that exist
    fs,                  \* the files that exist: path -> content
    video_path, output_dir, keep_audio,     \* transcribe_video's parameters
    output_path,         \* extract_audio's destination
    audio_path, result, transcription_path, \* transcribe_video's locals
    td_output_dir, video_files, idx, transcription_paths,  \* transcribe_directory
    printed_errors,      \* the "Error transcribing ..." lines of a batch
    \* history, for stating properties
    steps,               \* the steps transcribe_video has taken in this call
    tv_error,            \* the step whose exception ended this call
    fs_start,            \* fs when this call of transcribe_video began
    prev,                \* the previous call of transcribe_video
    attempted,           \* the videos a batch has handed to transcribe_video
    \* _format_timestamp on its own
    ts_millis, ts_text,
    \* the .srt writing loop on its own
    srt_pc, srt_segments, srt_todo, srt_i, srt_file

pvars == <<pc, mode, runs, arg_output, dirs, fs, video_path, output_dir, keep_audio, output_path,
           audio_path, result, transcription_path, td_output_dir, video_files, idx,
           transcription_paths, printed_errors, steps, tv_error, fs_start, prev,
           attempted>>
tvars == <<ts_millis, ts_text>>
svars == <<srt_pc, srt_segments, srt_todo, srt_i, srt_file>>
vars  == <<pvars, tvars, svars>>

(***************************************************************************)
(* Bounds of the model.                                                    *)
(***************************************************************************)
\* _format_timestamp is exercised on every whole millisecond 0..MaxMillis
\* and on the values of BigMillis.
MaxMillis == 2600
\* main() is run on a single file at most MaxRuns times, one run after the
\* other on the same file system
MaxRuns == 2
\* a result holds at most MaxSegments segments when the .srt loop is checked
\* on its own
MaxSegments == 2

(***************************************************************************)
(* Arbitrary precision naturals: little-endian sequences of limbs.         *)
(***************************************************************************)
LimbBase == 2^15

RECURSIVE IntBitLen(_)
IntBitLen(n) == IF n = 0 THEN 0 ELSE 1 + IntBitLen(n \div 2)

LimbBits == IntBitLen(LimbBase) - 1

RECURSIVE BigFromInt(_)
BigFromInt(n) ==
    IF n = 0 THEN <<>> ELSE <<n % LimbBase>> \o BigFromInt(n \div LimbBase)

RECURSIVE BigToInt(_)
BigToInt(a) ==
    IF a = <<>> THEN 0 ELSE Head(a) + LimbBase * BigToInt(Tail(a))

RECURSIVE BigIsZero(_)
BigIsZero(a) ==
    IF a = <<>> THEN TRUE ELSE Head(a) = 0 /\ BigIsZero(Tail(a))

\* a * c + carry, for a small c
RECURSIVE BigMulAdd(_, _, _)
BigMulAdd(a, c, carry) ==
    IF a = <<>> THEN BigFromInt(carry)
    ELSE LET t == Head(a) * c + carry
         IN  <<t % LimbBase>> \o BigMulAdd(Tail(a), c, t \div LimbBase)

\* [q |-> a div c, r |-> a mod c], for a small c: long division from limb i
\* down, with the quotient limbs q found so far and the remainder r
RECURSIVE BigDivLoop(_, _, _, _, _)
BigDivLoop(a, c, i, q, r) ==
    IF i = 0 THEN [q |-> q, r |-> r]
    ELSE BigDivLoop(a, c, i - 1, <<(r * LimbBase + a[i]) \div c>> \o q,
                    (r * LimbBase + a[i]) % c)

BigDivMod(a, c) == BigDivLoop(a, c, Len(a), <<>>, 0)

\* a - b, for a >= b
RECURSIVE BigSub(_, _, _)
BigSub(a, b, borrow) ==
    IF a = <<>> THEN <<>>
    ELSE LET y == (IF b = <<>> THEN 0 ELSE Head(b)) + borrow
             x == Head(a)
         IN  IF x >= y
             THEN <<x - y>> \o BigSub(Tail(a), IF b = <<>> THEN <<>> ELSE Tail(b), 0)
             ELSE <<x + LimbBase - y>>
                  \o BigSub(Tail(a), IF b = <<>> THEN <<>> ELSE Tail(b), 1)

RECURSIVE BigShl(_, _)
BigShl(a, n) ==
    IF n >= LimbBits THEN BigShl(<<0>> \o a, n - LimbBits)
    ELSE BigMulAdd(a, 2^n, 0)

RECURSIVE BigShr(_, _)
BigShr(a, n) ==
    IF a = <<>> THEN <<>>
    ELSE IF n >= LimbBits THEN BigShr(Tail(a), n - LimbBits)
    ELSE BigDivMod(a, 2^n).q

\* a mod 2^n
RECURSIVE BigLowBits(_, _)
BigLowBits(a, n) ==
    IF a = <<>> \/ n = 0 THEN <<>>
    ELSE IF n >= LimbBits THEN <<Head(a)>> \o BigLowBits(Tail(a), n - LimbBits)
    ELSE <<Head(a) % 2^n>>

\* the bits of the limbs 1..i of a
RECURSIVE BigBitLenLoop(_, _)
BigBitLenLoop(a, i) ==
    IF i = 0 THEN 0
    ELSE IF a[i] # 0 THEN (i - 1) * LimbBits + IntBitLen(a[i])
    ELSE BigBitLenLoop(a, i - 1)

BigBitLen(a) == BigBitLenLoop(a, Len(a))

\* bit i (from 0) of a
BigBit(a, i) ==
    LET j == (i \div LimbBits) + 1
    IN  IF j > Len(a) THEN 0 ELSE (a[j] \div 2^(i % LimbBits)) % 2

(***************************************************************************)
(* binary64 values >= 0: [m |-> big natural, s |-> scale], value m / 2^s.  *)
(***************************************************************************)
MantBits == 53

\* the binary64 nearest to t / 2^s (round half to even)
FloatRound(t, s) ==
    LET b == BigBitLen(t)
    IN  IF b <= MantBits THEN [m |-> t, s |-> s]
        ELSE LET d      == b - MantBits
                 q      == BigShr(t, d)
                 half   == BigBit(t, d - 1) = 1
                 sticky == ~BigIsZero(BigLowBits(t, d - 1))
                 up     == half /\ (sticky \/ BigBit(q, 0) = 1)
             IN  [m |-> BigShl(IF up THEN BigMulAdd(q, 1, 1) ELSE q, d), s |-> s]

\* the largest q with den * 2^q <= num  (num, den > 0)
RECURSIVE Log2Ratio(_, _)
Log2Ratio(num, den) ==
    IF num < den THEN Log2Ratio(2 * num, den) - 1
    ELSE IF num >= 2 * den THEN Log2Ratio(num, 2 * den) + 1
    ELSE 0

\* the float a caller holds for a time of k milliseconds: the binary64
\* nearest to k / 1000
FloatOfMillis(k) ==
    IF k = 0 THEN [m |-> <<>>, s |-> 0]
    ELSE LET s  == (MantBits - 1) - Log2Ratio(k, 1000)
             dm == BigDivMod(BigShl(BigFromInt(k), s), 1000)
             up == dm.r > 500 \/ (dm.r = 500 /\ BigBit(dm.q, 0) = 1)
         IN  [m |-> IF up THEN BigMulAdd(dm.q, 1, 1) ELSE dm.q, s |-> s]

\* int(x): truncation of a non-negative float
FloatToInt(x) == BigToInt(BigShr(x.m, x.s))

\* x // c as an int: Python's float floor division by a whole number
FloatFloorDiv(x, c) == FloatToInt(x) \div c

\* x - n for a whole n <= x
FloatSubInt(x, n) ==
    FloatRound(BigSub(x.m, BigShl(BigFromInt(n), x.s), 0), x.s)

\* x % c for a whole c: fmod, exact
FloatMod(x, c) == FloatSubInt(x, c * FloatFloorDiv(x, c))

\* x * c for a small whole c
FloatMulInt(x, c) == FloatRound(BigMulAdd(x.m, c, 0), x.s)

(***************************************************************************)
(* Text.                                                                   *)
(***************************************************************************)
Digits == <<"0", "1", "2", "3", "4", "5", "6", "7", "8", "9">>

\* str(n) for n >= 0
RECURSIVE Dec(_)
Dec(n) == IF n < 10 THEN <<Digits[n + 1]>> ELSE Dec(n \div 10) \o <<Digits[(n % 10) + 1]>>

\* f"{n:0{w}d}"
RECURSIVE ZeroPad(_, _)
ZeroPad(t, w) == IF Len(t) >= w THEN t ELSE ZeroPad(<<"0">> \o t, w)

\* VideoTranscriber._format_timestamp
format_timestamp(seconds) ==
    LET hours        == FloatFloorDiv(seconds, 3600)
        seconds1     == FloatMod(seconds, 3600)
        minutes      == FloatFloorDiv(seconds1, 60)
        seconds2     == FloatMod(seconds1, 60)
        milliseconds == FloatToInt(FloatMulInt(FloatSubInt(seconds2, FloatToInt(seconds2)), 1000))
    IN  ZeroPad(Dec(hours), 2) \o <<":">> \o ZeroPad(Dec(minutes), 2) \o <<":">>
        \o ZeroPad(Dec(FloatToInt(seconds2)), 2) \o <<",">> \o ZeroPad(Dec(milliseconds), 3)

(***************************************************************************)
(* Whisper segments and the .srt text.  A segment's start and end are the  *)
(* floats nearest to a whole number of milliseconds.                       *)
(***************************************************************************)
IsSpace(c) == c \in {" ", "\t", "\n", "\r"}

RECURSIVE LStrip(_)
LStrip(t) == IF t # <<>> /\ IsSpace(Head(t)) THEN LStrip(Tail(t)) ELSE t

RECURSIVE RStrip(_)
RStrip(t) ==
    IF t # <<>> /\ IsSpace(t[Len(t)]) THEN RStrip(SubSeq(t, 1, Len(t) - 1)) ELSE t

\* a strip that forgets the trailing whitespace
StripLeftOnly(t) == LStrip(t)

\* str.strip()
Strip(t) == RStrip(LStrip(t))

\* what one iteration of the segment loop writes
SrtBlock(i, segment) ==
    LET start == format_timestamp(FloatOfMillis(segment.start))
        end   == format_timestamp(FloatOfMillis(segment.end))
    IN  Dec(i) \o <<"\n">>
        \o start \o <<" ", "-", "-", ">", " ">> \o end \o <<"\n">>
        \o Strip(segment.text) \o <<"\n", "\n">>

\* the first value of enumerate(result["segments"], 1)
EnumerateStart == 1

\* the text the loop leaves in a file that held f, counting from i
RECURSIVE WriteSegments(_, _, _)
WriteSegments(f, segments, i) ==
    IF segments = <<>> THEN f
    ELSE WriteSegments(f \o SrtBlock(i, Head(segments)), Tail(segments), i + 1)

SrtText(segments) == WriteSegments(<<>>, segments, EnumerateStart)

(***************************************************************************)
(* Files, directories and what Whisper returns.                            *)
(***************************************************************************)
None == "None"

\* VideoTranscriber.supported_extensions
supported_extensions == {".mp4", ".avi", ".mov", ".mkv", ".webm", ".wmv", ".flv"}

\* str.lower() on the extensions the model uses
Lower(ext) == IF ext = ".MP4" THEN ".mp4" ELSE ext

\* the files main() can be pointed at; "sub" is a subdirectory of "root"
Files ==
    { [dir |-> "root", name |-> "a",     ext |-> ".mp4"],
      [dir |-> "sub",  name |-> "a",     ext |-> ".mkv"],
      [dir |-> "root", name |-> "b",     ext |-> ".MP4"],
      [dir |-> "root", name |-> "notes", ext |-> ".md"] }

IsVideo(f) == Lower(f.ext) \in supported_extensions

NoVideo == [dir |-> "", name |-> "", ext |-> ""]

\* os.path.join(dir, name + ext)
Path(dir, name, ext) == <<dir, name, ext>>

\* file contents: an audio track, a transcript, text, or nothing
EmptyFile     == [kind |-> "empty", of |-> NoVideo, variant |-> 0, chars |-> <<>>]
Audio(v)      == [kind |-> "audio", of |-> v, variant |-> 0, chars |-> <<>>]
\* Whisper need not return the same transcript for every run on a video
Variants      == {1, 2}
Transcript(v, n) == [kind |-> "transcript", of |-> v, variant |-> n, chars |-> <<>>]
TextFile(t)   == IF t = <<>> THEN EmptyFile
                 ELSE [kind |-> "text", of |-> NoVideo, variant |-> 0, chars |-> t]

Exists(f, p)  == p \in DOMAIN f
Put(f, p, c)  == [q \in (DOMAIN f) \cup {p} |-> IF q = p THEN c ELSE f[q]]
Remove(f, p)  == [q \in (DOMAIN f) \ {p} |-> f[q]]
NoFiles       == [q \in {} |-> EmptyFile]

\* tempfile.mkstemp(suffix='.wav'): a name no file of the temp directory has
TempDir == "tmp"
MkstempPath(f) ==
    LET free == {i \in 1..(Cardinality(DOMAIN f) + 1) :
                    ~Exists(f, Path(TempDir, ToString(i), ".wav"))}
    IN  Path(TempDir, ToString(CHOOSE i \in free : \A j \in free : i <= j), ".wav")

\* the segment lists Whisper may return in the program's runs
TheSegment == [start |-> 0, end |-> 1500, text |-> <<" ", "h", "i", " ">>]
SegmentLists == {<<>>, <<TheSegment>>}

\* the .srt text of each of them
SrtTextOf == [s \in SegmentLists |-> SrtText(s)]

NoResult == [text |-> EmptyFile, has_segments |-> FALSE, segments |-> <<>>]

\* a result either has no "segments" key or has one of the segment lists
SegmentChoices ==
    {[has |-> FALSE, list |-> <<>>]} \cup {[has |-> TRUE, list |-> s] : s \in SegmentLists}

\* what model.transcribe can return for an audio file: a transcript of the
\* video it was extracted from, with or without segments
Results(audio) ==
    { [text |-> Transcript(audio.of, n), has_segments |-> c.has, segments |-> c.list] :
        n \in Variants, c \in SegmentChoices }

(***************************************************************************)
(* VideoTranscriber.extract_audio.  ffmpeg ends in one of three ways: it   *)
(* exits 0 ("ok"), it exits non-zero ("exit": CalledProcessError; whatever *)
(* it left at the destination is then removed), or it cannot be started    *)
(* ("launch": FileNotFoundError or another OSError, which the except       *)
(* clause does not name).  main() runs "ffmpeg -version" once before any   *)
(* file is processed; the launch can still fail afterwards, and            *)
(* extract_audio is a public method that does not depend on that check.    *)
(***************************************************************************)
FfmpegOutcomes == {"ok", "exit", "launch"}

extract_audio(f, video, dest, ffmpeg) ==
    LET path == IF dest = None THEN MkstempPath(f) ELSE dest
        f1   == IF dest = None THEN Put(f, path, EmptyFile) ELSE f
    IN  CASE ffmpeg = "ok"     -> [fs |-> Put(f1, path, Audio(video)), output_path |-> path,
                                   raised |-> FALSE]
          [] ffmpeg = "exit"   -> [fs |-> Remove(f1, path), output_path |-> path,
                                   raised |-> TRUE]
          [] ffmpeg = "launch" -> [fs |-> f1, output_path |-> path, raised |-> TRUE]

(***************************************************************************)
(* VideoTranscriber.transcribe_video, one action per step.                 *)
(***************************************************************************)
NoPath == <<"", "", "">>
NoPrev == [valid |-> FALSE, video |-> NoVideo, keep_audio |-> FALSE,
           returned |-> FALSE, result |-> NoResult]

\* the caller's part of a call transcribe_video(v, od, keep)
CallTranscribeVideo(v, od, keep) ==
    /\ pc' = "tv_makedirs"
    /\ video_path' = v
    /\ output_dir' = od
    /\ keep_audio' = keep
    /\ output_path' = NoPath
    /\ audio_path' = NoPath
    /\ result' = NoResult
    /\ transcription_path' = NoPath
    /\ steps' = <<>>
    /\ tv_error' = None
    /\ fs_start' = fs

\* what prev holds once this call has ended
ThisCall(returned) ==
    [valid |-> TRUE, video |-> video_path, keep_audio |-> keep_audio,
     returned |-> returned, result |-> IF returned THEN result ELSE NoResult]

\* an exception that is noted and not raised: the call carries on
RaiseSwallowed(step) == pc' = "tv_write_txt" /\ tv_error' = step

\* an exception in step `step` leaves transcribe_video
Raise(step) == pc' = "tv_raised" /\ tv_error' = step

batchvars == <<mode, runs, arg_output, td_output_dir, video_files, idx, transcription_paths,
               printed_errors, prev, attempted>>
paramvars == <<video_path, keep_audio, fs_start>>

\* lines 93-100: the output directory defaults to the video's and is created
TV_Makedirs ==
    /\ pc = "tv_makedirs"
    /\ LET od == IF output_dir = None THEN video_path.dir ELSE output_dir
       IN  /\ output_dir' = od
           /\ \/ /\ dirs' = dirs \cup {od}
                 /\ pc' = "tv_extract"
                 /\ tv_error' = tv_error
              \/ /\ od \notin dirs
                 /\ dirs' = dirs
                 /\ Raise("makedirs")
    /\ steps' = Append(steps, "makedirs")
    /\ UNCHANGED <<fs, output_path, audio_path, result, transcription_path>>
    /\ UNCHANGED <<batchvars, paramvars, tvars, svars>>

\* lines 102-105
TV_Extract ==
    /\ pc = "tv_extract"
    /\ \E ffmpeg \in FfmpegOutcomes :
          LET dest == IF keep_audio
                      THEN Path(output_dir, video_path.name, ".wav") ELSE None
              r    == extract_audio(fs, video_path, dest, ffmpeg)
          IN  /\ fs' = r.fs
              /\ output_path' = r.output_path
              /\ IF r.raised
                 THEN /\ Raise(IF ffmpeg = "exit" THEN "extract_exit" ELSE "extract_launch")
                      /\ audio_path' = audio_path
                 ELSE /\ pc' = "tv_transcribe"
                      /\ audio_path' = r.output_path
                      /\ tv_error' = tv_error
    /\ steps' = Append(steps, "extract")
    /\ UNCHANGED <<dirs, output_dir, result, transcription_path>>
    /\ UNCHANGED <<batchvars, paramvars, tvars, svars>>

\* lines 107-111 with transcribe_audio: Whisper returns a result or raises
TV_Transcribe ==
    /\ pc = "tv_transcribe"
    /\ \/ \E r \in Results(fs[audio_path]) :
             /\ result' = r
             /\ pc' = "tv_cleanup"
             /\ tv_error' = tv_error
       \/ /\ Raise("transcribe")
          /\ result' = result
    /\ steps' = Append(steps, "transcribe")
    /\ UNCHANGED <<dirs, fs, output_dir, output_path, audio_path, transcription_path>>
    /\ UNCHANGED <<batchvars, paramvars, tvars, svars>>

\* lines 113-115: audio_path.startswith(tempfile.gettempdir())
InTempDir(path) == path[1] = TempDir

TV_Cleanup ==
    /\ pc = "tv_cleanup"
    /\ IF ~keep_audio /\ InTempDir(audio_path)
       THEN fs' = Remove(fs, audio_path) /\ steps' = Append(steps, "remove")
       ELSE fs' = fs /\ steps' = steps
    /\ pc' = "tv_write_txt"
    /\ UNCHANGED <<dirs, output_dir, output_path, audio_path, result,
                   transcription_path, tv_error>>
    /\ UNCHANGED <<batchvars, paramvars, tvars, svars>>

\* open(path, 'w') and the writes of `text`: the file holds the text, or the
\* open fails and nothing changes, or a write fails and the file is cut short
WriteOutcomes == {"ok", "open_fails", "write_fails"}
\* a write that leaves a file that is already there as it is
WriteFileUnlessPresent(f, path, content, outcome) ==
    IF outcome = "ok" /\ ~Exists(f, path) THEN Put(f, path, content) ELSE f

WriteFile(f, path, content, outcome) ==
    CASE outcome = "ok"          -> Put(f, path, content)
      [] outcome = "open_fails"  -> f
      [] outcome = "write_fails" -> Put(f, path, EmptyFile)

\* lines 117-120
TV_WriteTxt ==
    /\ pc = "tv_write_txt"
    /\ LET path == Path(output_dir, video_path.name, ".txt")
       IN  /\ transcription_path' = path
           /\ \E w \in WriteOutcomes :
                 /\ fs' = WriteFile(fs, path, result.text, w)
                 /\ IF w = "ok" THEN pc' = "tv_write_srt" /\ tv_error' = tv_error
                    ELSE Raise("write_txt")
    /\ steps' = Append(steps, "write_txt")
    /\ UNCHANGED <<dirs, output_dir, output_path, audio_path, result>>
    /\ UNCHANGED <<batchvars, paramvars, tvars, svars>>

\* line 123: if "segments" in result
WritesSrt(r) == r.has_segments

\* lines 122-135
TV_WriteSrt ==
    /\ pc = "tv_write_srt"
    /\ IF WritesSrt(result)
       THEN /\ \E w \in WriteOutcomes :
                  /\ fs' = WriteFile(fs, Path(output_dir, video_path.name, ".srt"),
                                     TextFile(SrtTextOf[result.segments]), w)
                  /\ IF w = "ok" THEN pc' = "tv_returned" /\ tv_error' = tv_error
                     ELSE Raise("write_srt")
            /\ steps' = Append(steps, "write_srt")
       ELSE /\ fs' = fs
            /\ steps' = steps
            /\ pc' = "tv_returned"
            /\ tv_error' = tv_error
    /\ UNCHANGED <<dirs, output_dir, output_path, audio_path, result, transcription_path>>
    /\ UNCHANGED <<batchvars, paramvars, tvars, svars>>

\* the locals of transcribe_video are gone once it has returned or raised
ForgetCall ==
    /\ video_path' = NoVideo
    /\ output_dir' = None
    /\ output_path' = NoPath
    /\ audio_path' = NoPath
    /\ result' = NoResult
    /\ transcription_path' = NoPath
    /\ steps' = <<>>
    /\ tv_error' = None
    /\ fs_start' = NoFiles

(***************************************************************************)
(* main() on a single file: lines 221-229.                                 *)
(***************************************************************************)
MainFile ==
    /\ pc = "idle"
    /\ runs < MaxRuns
    /\ runs' = runs + 1
    /\ mode' = "single"
    /\ \E f \in Files, keep \in BOOLEAN :
          IF IsVideo(f)
          THEN CallTranscribeVideo(f, arg_output, keep)
          ELSE \* "not a supported video format": main returns 1
               /\ UNCHANGED <<pc, video_path, output_dir, keep_audio, output_path,
                              audio_path, result, transcription_path, steps, tv_error,
                              fs_start>>
    /\ UNCHANGED <<arg_output, dirs, fs, td_output_dir, video_files, idx,
                   transcription_paths, printed_errors, prev, attempted>>
    /\ UNCHANGED <<tvars, svars>>

\* transcribe_video returns to main, or its exception ends the program
MainReturn ==
    /\ pc \in {"tv_returned", "tv_raised"}
    /\ mode = "single"
    /\ prev' = ThisCall(pc = "tv_returned")
    /\ pc' = "idle"
    /\ ForgetCall
    /\ UNCHANGED <<mode, runs, arg_output, dirs, fs, keep_audio, td_output_dir,
                   video_files, idx, transcription_paths, printed_errors, attempted>>
    /\ UNCHANGED <<tvars, svars>>

(***************************************************************************)
(* VideoTranscriber.transcribe_directory, called by main() on "root".      *)
(***************************************************************************)
\* the orders in which os.walk can list the videos of a tree: each once, the
\* files of a directory before those of its subdirectories
WalkOrders(tree) ==
    LET videos == {f \in tree : IsVideo(f)}
        n      == Cardinality(videos)
    IN  {s \in [1..n -> videos] :
            /\ \A i, j \in 1..n : i # j => s[i] # s[j]
            /\ \A i, j \in 1..n : i < j => ~(s[i].dir = "sub" /\ s[j].dir = "root")}

\* lines 151-170: the output directory, the walk, the empty case
MainDir ==
    /\ pc = "idle"
    /\ runs = 0
    /\ runs' = runs + 1
    /\ mode' = "batch"
    /\ LET od == IF arg_output = None THEN "root" ELSE arg_output
       IN  /\ td_output_dir' = od
           /\ \/ /\ dirs' = dirs \cup {od}
                 /\ \E tree \in SUBSET Files : \E walk \in WalkOrders(tree) :
                       /\ video_files' = walk
                       /\ pc' = IF walk = <<>> THEN "td_returned" ELSE "td_loop"
              \/ /\ od \notin dirs
                 /\ dirs' = dirs
                 /\ video_files' = <<>>
                 /\ pc' = "td_raised"
    /\ \E keep \in BOOLEAN : keep_audio' = keep
    /\ idx' = 1
    /\ transcription_paths' = <<>>
    /\ printed_errors' = <<>>
    /\ attempted' = <<>>
    /\ UNCHANGED <<arg_output, fs, video_path, output_dir, output_path, audio_path,
                   result, transcription_path, steps, tv_error, fs_start, prev>>
    /\ UNCHANGED <<tvars, svars>>

\* line 173: the next video, or the end of the loop and line 182
TD_Next ==
    /\ pc = "td_loop"
    /\ IF idx <= Len(video_files)
       THEN /\ CallTranscribeVideo(video_files[idx], td_output_dir, keep_audio)
            /\ attempted' = Append(attempted, video_files[idx])
       ELSE /\ pc' = "td_returned"
            /\ UNCHANGED <<video_path, output_dir, keep_audio, output_path, audio_path,
                           result, transcription_path, steps, tv_error, fs_start,
                           attempted>>
    /\ UNCHANGED <<mode, runs, arg_output, dirs, fs, td_output_dir, video_files, idx,
                   transcription_paths, printed_errors, prev>>
    /\ UNCHANGED <<tvars, svars>>

\* a loop that forgets the path
AppendPathForgotten(paths, path) == paths

\* what the loop does with a path transcribe_video returned: line 178
AppendPath(paths, path) == Append(paths, path)

TD_Append ==
    /\ pc = "tv_returned"
    /\ mode = "batch"
    /\ transcription_paths' = AppendPath(transcription_paths, transcription_path)
    /\ printed_errors' = printed_errors
    /\ idx' = idx + 1
    /\ pc' = "td_loop"
    /\ prev' = ThisCall(TRUE)
    /\ ForgetCall
    /\ UNCHANGED <<mode, runs, arg_output, dirs, fs, keep_audio, td_output_dir,
                   video_files, attempted>>
    /\ UNCHANGED <<tvars, svars>>

\* an exception that ends the loop
AbortAfterExcept == "td_returned"

\* where the loop goes after "except Exception": lines 179-180
AfterExcept == "td_loop"

TD_Except ==
    /\ pc = "tv_raised"
    /\ mode = "batch"
    /\ printed_errors' = Append(printed_errors, video_path)
    /\ transcription_paths' = transcription_paths
    /\ idx' = idx + 1
    /\ pc' = AfterExcept
    /\ prev' = ThisCall(FALSE)
    /\ ForgetCall
    /\ UNCHANGED <<mode, runs, arg_output, dirs, fs, keep_audio, td_output_dir,
                   video_files, attempted>>
    /\ UNCHANGED <<tvars, svars>>

(***************************************************************************)
(* The program.  Spec: main() run on single files, MaxRuns times.          *)
(* SpecDir: main() run once on the directory "root".  The command line's   *)
(* --output is the same in every run of a behaviour.                       *)
(***************************************************************************)
InitProgram ==
    /\ pc = "idle"
    /\ mode = "single"
    /\ runs = 0
    /\ arg_output \in {None, "out"}
    /\ dirs = {"root", "sub", TempDir}
    /\ fs = NoFiles
    /\ video_path = NoVideo
    /\ output_dir = None
    /\ keep_audio = FALSE
    /\ output_path = NoPath
    /\ audio_path = NoPath
    /\ result = NoResult
    /\ transcription_path = NoPath
    /\ td_output_dir = None
    /\ video_files = <<>>
    /\ idx = 1
    /\ transcription_paths = <<>>
    /\ printed_errors = <<>>
    /\ steps = <<>>
    /\ tv_error = None
    /\ fs_start = NoFiles
    /\ prev = NoPrev
    /\ attempted = <<>>

TsIdle == ts_millis = 0 /\ ts_text = <<>>
SrtIdle ==
    /\ srt_pc = "idle"
    /\ srt_segments = <<>>
    /\ srt_todo = <<>>
    /\ srt_i = 0
    /\ srt_file = <<>>

Init == InitProgram /\ TsIdle /\ SrtIdle

transcribe_video ==
    \/ TV_Makedirs
    \/ TV_Extract
    \/ TV_Transcribe
    \/ TV_Cleanup
    \/ TV_WriteTxt
    \/ TV_WriteSrt

Next == MainFile \/ transcribe_video \/ MainReturn

Spec == Init /\ [][Next]_vars

NextDir == MainDir \/ TD_Next \/ transcribe_video \/ TD_Append \/ TD_Except

SpecDir == Init /\ [][NextDir]_vars

(***************************************************************************)
(* _format_timestamp on its own (SpecTs): the caller holds the float       *)
(* nearest to a whole number of milliseconds.                              *)
(***************************************************************************)
BigMillis == {59999, 60000, 3599999, 3600000, 3725456, 86399999, 359999999, 360000001}
TsInputs  == (0..MaxMillis) \cup BigMillis

InitTs ==
    /\ InitProgram
    /\ arg_output = None
    /\ ts_millis \in TsInputs
    /\ ts_text = <<>>
    /\ SrtIdle

FormatTimestamp ==
    /\ ts_text = <<>>
    /\ ts_text' = format_timestamp(FloatOfMillis(ts_millis))
    /\ UNCHANGED <<ts_millis, pvars, svars>>

SpecTs == InitTs /\ [][FormatTimestamp]_vars

(***************************************************************************)
(* The .srt writing loop on its own (SpecSrt), lines 125-131, one action   *)
(* per iteration, over every list of at most MaxSegments segments.         *)
(***************************************************************************)
SrtTimes == {0, 1500, 2480}
SrtTexts == { <<" ", "h", "i", " ">>, <<"h", "i">>, <<"\t", "a", " ", "b", "\n">> }
SrtSegments ==
    {[start |-> a, end |-> b, text |-> x] : a \in SrtTimes, b \in SrtTimes, x \in SrtTexts}
SrtSegmentLists ==
    UNION {[1..n -> {s \in SrtSegments : s.start <= s.end}] : n \in 0..MaxSegments}

InitSrt ==
    /\ InitProgram
    /\ arg_output = None
    /\ TsIdle
    /\ srt_pc = "start"
    /\ srt_segments \in SrtSegmentLists
    /\ srt_todo = <<>>
    /\ srt_i = 0
    /\ srt_file \in {<<>>, <<"o", "l", "d", "\n">>}

\* line 125: open(srt_path, 'w') empties the file
SrtOpen ==
    /\ srt_pc = "start"
    /\ srt_file' = <<>>
    /\ srt_todo' = srt_segments
    /\ srt_i' = EnumerateStart
    /\ srt_pc' = "loop"
    /\ UNCHANGED <<srt_segments, pvars, tvars>>

\* lines 126-131: one iteration
SrtWrite ==
    /\ srt_pc = "loop"
    /\ srt_todo # <<>>
    /\ srt_file' = srt_file \o SrtBlock(srt_i, Head(srt_todo))
    /\ srt_todo' = Tail(srt_todo)
    /\ srt_i' = srt_i + 1
    /\ UNCHANGED <<srt_pc, srt_segments, pvars, tvars>>

\* the end of the with block
SrtClose ==
    /\ srt_pc = "loop"
    /\ srt_todo = <<>>
    /\ srt_pc' = "closed"
    /\ UNCHANGED <<srt_segments, srt_todo, srt_i, srt_file, pvars, tvars>>

NextSrt == SrtOpen \/ SrtWrite \/ SrtClose

SpecSrt == InitSrt /\ [][NextSrt]_vars

(***************************************************************************)
(* Properties.                                                             *)
(***************************************************************************)
TxtPath == Path(output_dir, video_path.name, ".txt")
SrtPath == Path(output_dir, video_path.name, ".srt")
WavPath == Path(output_dir, video_path.name, ".wav")

\* path p is the same in file systems f and g
SameAt(f, g, p) == (Exists(f, p) <=> Exists(g, p)) /\ (Exists(f, p) => f[p] = g[p])

CallEnded == pc \in {"tv_returned", "tv_raised"}

\* the videos of the batch whose call raised, and the others in walk order
RECURSIVE Successes(_, _)
Successes(files, failed) ==
    IF files = <<>> THEN <<>>
    ELSE (IF \E i \in 1..Len(failed) : failed[i] = Head(files) THEN <<>>
          ELSE <<Head(files)>>) \o Successes(Tail(files), failed)

C1_RaisesOnlyBeforeDiscovery ==
    pc = "td_raised" => (td_output_dir \notin dirs /\ attempted = <<>>)

C2_Inv ==
    /\ Len(attempted) <= Len(video_files)
    /\ attempted = SubSeq(video_files, 1, Len(attempted))
    /\ (mode = "batch" /\ pc \notin {"idle", "td_loop", "td_returned", "td_raised"}) =>
            /\ Len(attempted) = idx
            /\ video_path = video_files[idx]
    /\ pc = "td_loop" => Len(attempted) = idx - 1
    /\ pc = "td_returned" => attempted = video_files
    /\ pc = "td_raised" => attempted = <<>> /\ video_files = <<>>

C2_EveryFileAttempted ==
    /\ []C2_Inv
    /\ \A n \in 1..Cardinality(Files) :
          (pc = "td_loop" /\ Len(video_files) = n)
              ~> (pc = "td_returned" /\ Len(attempted) = n)

C2_Witness ==
    /\ pc = "td_returned"
    /\ Len(attempted) = 3
    /\ Len(printed_errors) = 2
    /\ printed_errors[1] = video_files[1]
    /\ Len(transcription_paths) = 1

FairSpecDir == SpecDir /\ WF_vars(NextDir)

\* C3 as claimed: once a call with keep_audio = False has returned or raised
\* after extraction produced a file, that audio file is gone.
C3_NoAudioLeftBehind ==
    (CallEnded /\ ~keep_audio /\ audio_path # NoPath) => ~Exists(fs, audio_path)

\* C4 as claimed: when extract_audio raises, for a non-zero exit or because
\* ffmpeg cannot be started, no file is left at its destination.
C4_NoFileAfterFailedExtract ==
    (pc = "tv_raised" /\ tv_error \in {"extract_exit", "extract_launch"})
        => ~Exists(fs, output_path)

\* C5 as claimed: after a call that returned, into a directory that held no
\* .txt or .srt of the video, the .txt exists and the .srt exists exactly
\* when the result had a non-empty segment list.
C5_SrtIffSegments ==
    (pc = "tv_returned" /\ ~Exists(fs_start, TxtPath) /\ ~Exists(fs_start, SrtPath)) =>
        /\ Exists(fs, TxtPath)
        /\ Exists(fs, SrtPath) <=> (result.has_segments /\ result.segments # <<>>)

\* C6: the steps of a call run in the order makedirs, extract, transcribe,
\* remove, write .txt, write .srt and the first failure ends the call: after
\* a failed extraction there was no inference and no output was written,
\* after a failed inference no output was written, and a call that failed
\* raises instead of returning.
StepRank(s) ==
    CASE s = "makedirs"   -> 1
      [] s = "extract"    -> 2
      [] s = "transcribe" -> 3
      [] s = "remove"     -> 4
      [] s = "write_txt"  -> 5
      [] s = "write_srt"  -> 6

Took(s) == \E i \in 1..Len(steps) : steps[i] = s

FailedStep ==
    CASE tv_error \in {"extract_exit", "extract_launch"} -> "extract"
      [] OTHER -> tv_error

C6_FirstFailureEndsTheCall ==
    /\ \A i, j \in 1..Len(steps) : i < j => StepRank(steps[i]) < StepRank(steps[j])
    /\ \A i \in 1..Len(steps) :
          \A s \in {"makedirs", "extract", "transcribe", "write_txt"} :
             StepRank(s) < StepRank(steps[i]) => \E j \in 1..(i - 1) : steps[j] = s
    /\ pc = "tv_raised" =>
          /\ tv_error # None
          /\ steps # <<>> /\ steps[Len(steps)] = FailedStep
    /\ (pc = "tv_raised" /\ FailedStep = "extract") =>
          /\ ~Took("transcribe") /\ ~Took("write_txt") /\ ~Took("write_srt")
          /\ result = NoResult
          /\ SameAt(fs, fs_start, TxtPath) /\ SameAt(fs, fs_start, SrtPath)
    /\ (pc = "tv_raised" /\ FailedStep = "transcribe") =>
          /\ ~Took("write_txt") /\ ~Took("write_srt")
          /\ SameAt(fs, fs_start, TxtPath) /\ SameAt(fs, fs_start, SrtPath)
    /\ pc = "tv_returned" =>
          /\ tv_error = None
          /\ Took("makedirs") /\ Took("extract") /\ Took("transcribe") /\ Took("write_txt")
    /\ (pc = "idle" /\ prev.valid /\ prev.returned) => prev.result # NoResult

C6_Witness ==
    /\ pc = "tv_raised"
    /\ tv_error = "transcribe"
    /\ Exists(fs_start, TxtPath)
    /\ Exists(fs_start, SrtPath)

\* a second call on the video of the call before it, which returned
IsRerun ==
    /\ pc = "tv_returned"
    /\ prev.valid /\ prev.returned
    /\ prev.video = video_path

\* every file but the video's outputs is as it was when the call began
OthersUntouched ==
    \A p \in (DOMAIN fs) \cup (DOMAIN fs_start) :
        p \notin {TxtPath, SrtPath, WavPath} => SameAt(fs, fs_start, p)

\* C7 as claimed: a second call on the same video succeeds and overwrites:
\* the .txt and the .srt in the directory hold what the second call
\* produced and nothing else, no other file appears, and with the same
\* result the directory is as the first call left it.
C7_RerunOverwrites ==
    IsRerun =>
        /\ Exists(fs, TxtPath) /\ fs[TxtPath] = result.text
        /\ Exists(fs, SrtPath) =>
              /\ result.has_segments
              /\ fs[SrtPath] = TextFile(SrtText(result.segments))
        /\ OthersUntouched
        /\ (result = prev.result /\ keep_audio = prev.keep_audio) => fs = fs_start

\* C7 amended: the .txt holds the second call's text; the .srt holds the
\* second call's segments when its result has a "segments" key, and is left
\* as the first call left it (possibly present, with the first call's
\* segments) when it has none; no other file but the retained audio
\* changes; with the same result and keep_audio the directory is as the
\* first call left it.
C7_RerunOverwritesWhatItWrites ==
    IsRerun =>
        /\ Exists(fs, TxtPath) /\ fs[TxtPath] = result.text
        /\ IF result.has_segments
           THEN Exists(fs, SrtPath) /\ fs[SrtPath] = TextFile(SrtText(result.segments))
           ELSE SameAt(fs, fs_start, SrtPath)
        /\ IF keep_audio
           THEN Exists(fs, WavPath) /\ fs[WavPath] = Audio(video_path)
           ELSE SameAt(fs, fs_start, WavPath)
        /\ OthersUntouched
        /\ (result = prev.result /\ keep_audio = prev.keep_audio) => fs = fs_start

C7_Witness ==
    /\ IsRerun
    /\ result.text # prev.result.text
    /\ prev.result.has_segments /\ prev.result.segments # <<>>
    /\ ~result.has_segments
    /\ Exists(fs, SrtPath)

\* reading a timestamp text back
DigitValue(c) == CHOOSE d \in 0..9 : Digits[d + 1] = c
IsDigits(t) == \A i \in 1..Len(t) : \E d \in 1..10 : Digits[d] = t[i]

RECURSIVE ParseNat(_)
ParseNat(t) ==
    IF t = <<>> THEN 0 ELSE 10 * ParseNat(SubSeq(t, 1, Len(t) - 1)) + DigitValue(t[Len(t)])

\* the fields of HH:MM:SS,mmm, read from the right
TsFields(t) ==
    LET n == Len(t)
    IN  [hh |-> SubSeq(t, 1, n - 10), mm |-> SubSeq(t, n - 8, n - 7),
         ss |-> SubSeq(t, n - 5, n - 4), ms |-> SubSeq(t, n - 2, n)]

TsWellFormed(t) ==
    LET n == Len(t)
        f == TsFields(t)
    IN  /\ n >= 12
        /\ t[n - 9] = ":" /\ t[n - 6] = ":" /\ t[n - 3] = ","
        /\ IsDigits(f.hh) /\ IsDigits(f.mm) /\ IsDigits(f.ss) /\ IsDigits(f.ms)
        /\ (Len(f.hh) = 2 \/ f.hh[1] # "0")

TsReparse(t) ==
    LET f == TsFields(t)
    IN  ((ParseNat(f.hh) * 60 + ParseNat(f.mm)) * 60 + ParseNat(f.ss)) * 1000
        + ParseNat(f.ms)

\* what does hold of the text for C8's inputs: it is well formed, hours,
\* minutes and seconds are exact, and the milliseconds are k mod 1000 or
\* one less
TsNeverOverOneMillisecondBelow ==
    ts_text # <<>> =>
        /\ TsWellFormed(ts_text)
        /\ LET f == TsFields(ts_text)
               k == ts_millis
           IN  /\ ParseNat(f.hh) = k \div 3600000
               /\ ParseNat(f.mm) = (k % 3600000) \div 60000
               /\ ParseNat(f.ss) = (k % 60000) \div 1000
               /\ k - TsReparse(ts_text) \in 0..1

\* C8 as claimed: for a time of k whole milliseconds the text is
\* HH:MM:SS,mmm with HH = k div 3600000 on at least two digits,
\* MM = (k mod 3600000) div 60000, SS = (k mod 60000) div 1000 and
\* mmm = k mod 1000, and reading it back gives a time within 1 ms of k.
C8_TimestampIsTruncatedMillis ==
    ts_text # <<>> =>
        /\ TsWellFormed(ts_text)
        /\ LET f == TsFields(ts_text)
               k == ts_millis
           IN  /\ ParseNat(f.hh) = k \div 3600000
               /\ ParseNat(f.mm) = (k % 3600000) \div 60000
               /\ ParseNat(f.ss) = (k % 60000) \div 1000
               /\ ParseNat(f.ms) = k % 1000
               /\ TsReparse(ts_text) - k \in -1..1

\* C9: the text written for n segments is n blocks in the segments' order,
\* block i being the line i, the line "start --> end" of the two formatted
\* timestamps, the segment's text without its leading and trailing
\* whitespace, and an empty line; no segment gives the empty text.
RECURSIVE SplitLines(_, _)
SplitLines(t, line) ==
    IF t = <<>> THEN (IF line = <<>> THEN <<>> ELSE <<line>>)
    ELSE IF Head(t) = "\n" THEN <<line>> \o SplitLines(Tail(t), <<>>)
    ELSE SplitLines(Tail(t), Append(line, Head(t)))

Trimmed(t) ==
    LET ns == {i \in 1..Len(t) : ~IsSpace(t[i])}
    IN  IF ns = {} THEN <<>>
        ELSE SubSeq(t, CHOOSE i \in ns : \A j \in ns : i <= j,
                       CHOOSE i \in ns : \A j \in ns : i >= j)

C9_BlocksInOrder ==
    srt_pc = "closed" =>
        LET n     == Len(srt_segments)
            lines == SplitLines(srt_file, <<>>)
        IN  /\ (srt_file # <<>> => srt_file[Len(srt_file)] = "\n")
            /\ Len(lines) = 4 * n
            /\ n = 0 => srt_file = <<>>
            /\ \A i \in 1..n :
                  LET s == srt_segments[i]
                  IN  /\ IsDigits(lines[4 * i - 3])
                      /\ lines[4 * i - 3][1] # "0"
                      /\ ParseNat(lines[4 * i - 3]) = i
                      /\ lines[4 * i - 2]
                           = format_timestamp(FloatOfMillis(s.start))
                             \o <<" ", "-", "-", ">", " ">>
                             \o format_timestamp(FloatOfMillis(s.end))
                      /\ lines[4 * i - 1] = Trimmed(s.text)
                      /\ lines[4 * i] = <<>>

C9_Witness ==
    /\ srt_pc = "closed"
    /\ Len(srt_segments) = 2
    /\ srt_segments[1].text # Trimmed(srt_segments[1].text)
    /\ srt_segments[2].start = 2480

\* C10 as claimed: the videos of one batch have pairwise distinct output
\* paths, so when the batch returns every success's .txt holds that
\* video's own transcript, also for videos of different subdirectories or
\* extensions that share a name.
C10_OwnTranscriptPerVideo ==
    pc = "td_returned" =>
        LET ok == Successes(video_files, printed_errors)
        IN  /\ \A i, j \in 1..Len(ok) :
                  i # j => Path(td_output_dir, ok[i].name, ".txt")
                           # Path(td_output_dir, ok[j].name, ".txt")
            /\ \A i \in 1..Len(ok) :
                  LET p == Path(td_output_dir, ok[i].name, ".txt")
                  IN  Exists(fs, p) /\ fs[p].kind = "transcript" /\ fs[p].of = ok[i]

====
